---- MODULE Spec2Model ----
(***************************************************************************)
(* A model of the g2scanner gray-code scanner.                             *)
(*                                                                         *)
(*   src/g2scanner.py                   the single-threaded analyser       *)
(*   src/legacy/g2scanner_threaded.py   threaded, calibrate once ("v1")    *)
(*   src/legacy/g2scanner_threaded2.py  threaded, calibrate per frame      *)
(*                                      ("v2")                             *)
(*                                                                         *)
(* Two specifications share the pure operators of the first part:          *)
(*   Spec        the producer / worker-pool scheduler of the two threaded  *)
(*               programs, one step per statement that touches shared      *)
(*               state;                                                    *)
(*   SpecLayout  calibration and decode of the three programs applied to   *)
(*               frames drawn from a bounded set.                          *)
(*                                                                         *)
(* A frame is modelled by the set of its dark rows: every pixel of a dark  *)
(* row has DarkValue in all three channels, every other pixel LightValue.  *)
(* Frames are uniform across columns.                                      *)
(***************************************************************************)
EXTENDS Integers, Sequences, FiniteSets, TLC

VARIABLES
    \* ---- the threaded programs: module globals ----
    variant,            \* 1: g2scanner_threaded.py, 2: g2scanner_threaded2.py
    NUM_THREADS,        \* number of worker threads of this session
    NUM_SCANS,          \* target scan count of this session
    done,               \* global done
    lock,               \* holder of the global lock: Free or a worker
    pool,               \* global pool: sequence of idle ImageProcessors
    image_times,        \* global image_times, abstracted to its length
    taken,              \* global taken
    current_bit_pattern,\* global current_bit_pattern
    shared_bin_pixels,  \* global bin_pixels of v1
    \* ---- per ImageProcessor ----
    pc,                 \* position of each worker thread in run()
    event,              \* self.event is set
    terminated,         \* self.terminated
    stream,             \* content of self.stream: a frame, Empty or Closed
    raised,             \* an exception is propagating through run()
    self_bin_pixels,    \* self.bin_pixels of v2
    bit_pattern,        \* self.bit_pattern / local brightness
    \* ---- the main thread (G2Scanner) ----
    mpc,                \* position of the main thread
    processor,          \* the local "processor" of streams() / close()
    closeCaller,        \* who called close(): "main" or "calibrate"
    cameraClosed,       \* number of camera.close() calls so far
    \* ---- history variables (not program state) ----
    handed,             \* number of event.set() calls by the producer
    notFound,           \* number of frames whose calibration found no marker
    \* ---- SpecLayout ----
    impl,               \* "analyse", "threaded" or "threaded2"
    arr,                \* the frame under calibration
    lpc,                \* "off", "start", "calibrated", "decoded", ...
    bin_pixels,         \* the boundary list calibration produced
    bin_bits,           \* the bits decode produced
    zeroDiv,            \* decode divided by a zero row count / averaged no rows
    first_bin_pixels,   \* history: the list the first calibration produced
    max_edge,           \* analyse: the column of the strongest edge, -1: none
    scan_column         \* the column the decode loop samples, -1: none yet

vars == <<variant, NUM_THREADS, NUM_SCANS, done, lock, pool, image_times, taken,
          current_bit_pattern, shared_bin_pixels, pc, event, terminated, stream,
          raised, self_bin_pixels, bit_pattern, mpc, processor, closeCaller, cameraClosed,
          handed, notFound, impl, arr, lpc, bin_pixels, bin_bits, zeroDiv,
          first_bin_pixels, max_edge, scan_column>>

schedVars == <<variant, NUM_THREADS, NUM_SCANS, done, lock, pool, image_times,
               taken, current_bit_pattern, shared_bin_pixels, pc, event,
               terminated, stream, raised, self_bin_pixels, bit_pattern, mpc, processor,
               closeCaller, cameraClosed, handed, notFound>>

layoutVars == <<impl, arr, lpc, bin_pixels, bin_bits, zeroDiv, first_bin_pixels,
                max_edge, scan_column>>

(***************************************************************************)
(* Bounds of the model                                                     *)
(***************************************************************************)
MaxThreads == 2     \* sessions have 1..MaxThreads workers
MaxScans == 2       \* sessions have a target of 1..MaxScans scans
MaxTop == 2         \* SpecLayout: the top marker row is in 0..MaxTop
DarkValue == 0      \* channel value of a pixel of a dark row
LightValue == 255   \* channel value of every other pixel

(***************************************************************************)
(* Program constants                                                       *)
(***************************************************************************)
ROWS == 300             \* camera.resolution = (16,300)
SCAN_COLUMN == 8
COLS == 16              \* camera.resolution = (16, 300)
BINS == 20              \* dp = abs((bottom - top) / 20.0)
BOUNDARIES == 21        \* np.linspace(.., .., 21) and [0:21]

Rows == 0 .. (ROWS - 1)

SetMin(S) == CHOOSE x \in S : \A y \in S : x <= y
SetMax(S) == CHOOSE x \in S : \A y \in S : x >= y
Last(s) == s[Len(s)]

\* one channel of the pixel of row r in the scan column
Pixel(frame, r) == IF r \in frame THEN DarkValue ELSE LightValue

(***************************************************************************)
(* Marker search.  Each program has its own luminance formula and          *)
(* threshold; all three scan the rows from the top and from the bottom.    *)
(***************************************************************************)
\* g2scanner.py: temp_lums = sum of the three channels, < BLACK_LUM_MAX = 100
IsBlackAnalyse(frame, r) == 3 * Pixel(frame, r) < 100
\* threaded.py: sqrt(r**2 + b**2 + g**2) < 75.0
IsBlackThreaded(frame, r) == 3 * Pixel(frame, r) * Pixel(frame, r) < 75 * 75
\* threaded2.py: (r + b + g) / 3.0 < 50.0
IsBlackThreaded2(frame, r) == 3 * Pixel(frame, r) < 3 * 50

IsBlack(im, frame, r) ==
    CASE im = "analyse"   -> IsBlackAnalyse(frame, r)
      [] im = "threaded"  -> IsBlackThreaded(frame, r)
      [] im = "threaded2" -> IsBlackThreaded2(frame, r)

BlackRows(im, frame) == {r \in Rows : IsBlack(im, frame, r)}
\* None is modelled by -1
top_bar_pixel(im, frame) ==
    LET black == BlackRows(im, frame)
    IN  IF black = {} THEN -1 ELSE SetMin(black)
bottom_bar_pixel(im, frame) ==
    LET black == BlackRows(im, frame)
    IN  IF black = {} THEN -1 ELSE SetMax(black)

(***************************************************************************)
(* Floating point.  Every boundary is top + j*dp with dp = span/20.0, kept *)
(* here as the integer 20*top + j*span (twentieths of a row).  When span   *)
(* is a multiple of 5, dp is a multiple of 1/4 and every value the code    *)
(* computes is exact in binary floating point.  Otherwise dp is inexact    *)
(* and a value that is mathematically a tie (x.5) or an integer quotient   *)
(* lands on either side of it: both outcomes are kept.                     *)
(***************************************************************************)
FpExact(span) == span % 5 = 0

\* Python 2 int(round(v / 20.0)): half away from zero, v >= 0
PyRound(v, span) ==
    LET q == v \div 20
        r == v % 20
    IN  IF r < 10 THEN {q}
        ELSE IF r > 10 THEN {q + 1}
        ELSE IF FpExact(span) THEN {q + 1}
        ELSE {q, q + 1}

\* numpy's length of arange: ceil((stop - start) / step), here num/den
ArangeLen(num, den, span) ==
    IF num % den # 0 THEN {(num \div den) + 1}
    ELSE IF FpExact(span) THEN {num \div den}
    ELSE {num \div den, (num \div den) + 1}

\* the lists [int(round(top + j*dp)) : j = first .. last]
RECURSIVE RoundedFrom(_, _, _, _)
RoundedFrom(top, span, j, last) ==
    IF j > last THEN {<<>>}
    ELSE {<<h>> \o t : h \in PyRound(20 * top + j * span, span),
                       t \in RoundedFrom(top, span, j + 1, last)}

(***************************************************************************)
(* Calibration.  An outcome is a record: status "ok" with the boundary     *)
(* list in bins, "notfound" when a marker is missing, or "zerodiv" when    *)
(* np.arange is given the step 0.0 and raises ZeroDivisionError.           *)
(***************************************************************************)
Outcome(st, b) == [status |-> st, bins |-> b]

Take(s, n) == SubSeq(s, 1, IF Len(s) < n THEN Len(s) ELSE n)

\* g2scanner.py: np.linspace(top, bottom, 21), each entry int(round(x));
\* linspace stores the stop value itself in the last entry
LinspaceRounded(top, bottom) ==
    {s \o <<bottom>> : s \in RoundedFrom(top, bottom - top, 0, BOUNDARIES - 2)}

CalibrateAnalyse(frame) ==
    LET top == top_bar_pixel("analyse", frame)
        bottom == bottom_bar_pixel("analyse", frame)
    IN  IF top = -1 \/ bottom = -1 THEN {Outcome("notfound", <<>>)}
        ELSE {Outcome("ok", b) : b \in LinspaceRounded(top, bottom)}

\* threaded.py: the global bin_pixels (prev) is appended to, never reset
AppendBottom(b, bottom) == IF Last(b) # bottom THEN Append(b, bottom) ELSE b

CalibrateThreaded(prev, frame) ==
    LET top == top_bar_pixel("threaded", frame)
        bottom == bottom_bar_pixel("threaded", frame)
        span == bottom - top
    IN  IF top = -1 \/ bottom = -1 THEN {Outcome("notfound", prev)}
        ELSE IF span = 0 THEN {Outcome("zerodiv", Append(prev, top))}
        ELSE {Outcome("ok", AppendBottom(prev \o <<top>> \o t, bottom)) :
                t \in UNION {RoundedFrom(top, span, 1, n) :
                               n \in ArangeLen((BINS - 1) * span, span, span)}}

\* threaded2.py: np.arange(top, bottom + dp, dp).tolist()[0:21]
CalibrateThreaded2(frame) ==
    LET top == top_bar_pixel("threaded2", frame)
        bottom == bottom_bar_pixel("threaded2", frame)
        span == bottom - top
    IN  IF top = -1 \/ bottom = -1 THEN {Outcome("notfound", <<>>)}
        ELSE IF span = 0 THEN {Outcome("zerodiv", <<>>)}
        ELSE {Outcome("ok", Take(t, BOUNDARIES)) :
                t \in UNION {RoundedFrom(top, span, 0, n - 1) :
                               n \in ArangeLen((BINS + 1) * span, span, span)}}

Calibrate(im, prev, frame) ==
    CASE im = "analyse"   -> CalibrateAnalyse(frame)
      [] im = "threaded"  -> CalibrateThreaded(prev, frame)
      [] im = "threaded2" -> CalibrateThreaded2(frame)

(***************************************************************************)
(* Decode.  The result is a record: bits, the pattern built so far;        *)
(* zero, whether some bin had no rows (a division by a zero row count in   *)
(* g2scanner.py, an average of no rows in threaded.py); error, whether an  *)
(* exception ended the loop (the IndexError of threaded2.py).              *)
(***************************************************************************)
RECURSIVE SumRows(_, _, _, _)
\* sum over rows a .. b-1 of (3 * pixel) \div d
SumRows(frame, a, b, d) ==
    IF a >= b THEN 0
    ELSE ((3 * Pixel(frame, a)) \div d) + SumRows(frame, a + 1, b, d)

\* g2scanner.py: np.sum(lums[tp:bp]/(bp-tp)) < 2*BLACK_LUM_MAX.  An empty
\* slice divided by zero is an empty array; its sum is 0.
BitAnalyse(frame, tp, bp) ==
    IF bp - tp <= 0 THEN 1
    ELSE IF SumRows(frame, tp, bp, bp - tp) < 2 * 100 THEN 1 ELSE 0

\* threaded.py: b,g,r = np.average(array[a:b, SCAN_COLUMN], 0); r+g+b < 175.
\* The average of no rows is nan, and nan < 175 is false.
BitThreaded(frame, a, b) ==
    IF b - a <= 0 THEN 0
    ELSE IF SumRows(frame, a, b, 1) < 175 * (b - a) THEN 1 ELSE 0

\* threaded2.py: array[a:b][scan_column] is row scan_column of the slice,
\* averaged over the columns; (r*299 + g*587 + b*114) / 1000.0 < 95
HasRow8(a, b) ==
    (IF b < ROWS THEN b ELSE ROWS) - a > SCAN_COLUMN
BitThreaded2(frame, a, b) ==
    IF (299 + 587 + 114) * Pixel(frame, a + SCAN_COLUMN) < 95 * 1000
    THEN 1 ELSE 0

Bit(im, frame, a, b) ==
    CASE im = "analyse"   -> BitAnalyse(frame, a, b)
      [] im = "threaded"  -> BitThreaded(frame, a, b)
      [] im = "threaded2" -> BitThreaded2(frame, a, b)

BinRaises(im, a, b) == im = "threaded2" /\ ~HasRow8(a, b)

\* for i in range(len(bin_pixels)-1): ... append(bit).  The loop stops at
\* the first bin whose evaluation raises; the bits appended before it stay.
Decode(im, frame, bins) ==
    LET n == Len(bins) - 1
        raising == {i \in 1 .. n : BinRaises(im, bins[i], bins[i + 1])}
        stop == IF raising = {} THEN n ELSE SetMin(raising) - 1
    IN  [bits |-> [i \in 1 .. stop |-> Bit(im, frame, bins[i], bins[i + 1])],
         zero |-> \E i \in 1 .. stop : bins[i + 1] - bins[i] <= 0,
         error |-> raising # {}]

(***************************************************************************)
(* The scheduler of the threaded programs.                                 *)
(***************************************************************************)
Workers == 1 .. NUM_THREADS

\* the lock is held by no thread
Free == 0

\* the frames the camera delivers to the workers: no dark row at all; marker
\* rows 10 apart; marker rows 280 apart (every bin 14 rows high)
SampleFrames == {{}, {5, 15}, {10, 290}}
\* the frames the camera delivers to v1's _calibrate: also one dark row only
CalibrationFrames == SampleFrames \cup {{7}}

EmptyStream == [st |-> "empty", data |-> {}]
Filled(frame) == [st |-> "filled", data |-> frame]
ClosedStream == [st |-> "closed", data |-> {}]

ImplOf(v) == IF v = 1 THEN "threaded" ELSE "threaded2"

\* The outcomes of _calibrate and of the decode loop on the frames of the
\* scheduler, tabulated: they are functions of the frame (and the layout)
\* alone, and the table is evaluated once.
Calibrated2 == [f \in SampleFrames |-> CalibrateThreaded2(f)]

SchedulerLayouts ==
    {o.bins : o \in UNION ({CalibrateThreaded(<<>>, f) : f \in CalibrationFrames}
                              \cup {Calibrated2[f] : f \in SampleFrames})}

Decoded ==
    [v \in {1, 2}, f \in SampleFrames, b \in SchedulerLayouts |->
        Decode(ImplOf(v), f, b)]

\* pool = [ImageProcessor(self.camera) for i in range(NUM_THREADS)]
InitialPool(n) == [i \in 1 .. n |-> i]

Front(s) == SubSeq(s, 1, Len(s) - 1)

InitLayoutOff ==
    /\ impl = "none" /\ arr = {} /\ lpc = "off"
    /\ bin_pixels = <<>> /\ bin_bits = <<>> /\ zeroDiv = FALSE
    /\ first_bin_pixels = <<>>
    /\ max_edge = -1 /\ scan_column = -1

Init ==
    /\ variant \in {1, 2}
    /\ NUM_THREADS \in 1 .. MaxThreads
    /\ NUM_SCANS \in 1 .. MaxScans
    /\ done = FALSE
    /\ lock = Free
    /\ pool = InitialPool(NUM_THREADS)
    /\ image_times = 0
    /\ taken = 0
    /\ current_bit_pattern = <<>>
    /\ shared_bin_pixels = <<>>
    /\ pc = [w \in Workers |-> "loop"]
    /\ event = [w \in Workers |-> FALSE]
    /\ terminated = [w \in Workers |-> FALSE]
    /\ stream = [w \in Workers |-> EmptyStream]
    /\ raised = [w \in Workers |-> FALSE]
    /\ self_bin_pixels = [w \in Workers |-> <<>>]
    /\ bit_pattern = [w \in Workers |-> <<>>]
    /\ mpc = IF variant = 1 THEN "calibrate" ELSE "streams"
    /\ processor = 0
    /\ closeCaller = "none"
    /\ cameraClosed = 0
    /\ handed = 0
    /\ notFound = 0
    /\ InitLayoutOff

(***************************************************************************)
(* ImageProcessor.run                                                      *)
(***************************************************************************)
\* while not self.terminated:
WLoop(w) ==
    /\ pc[w] = "loop"
    /\ pc' = [pc EXCEPT ![w] = IF terminated[w] THEN "exited" ELSE "wait"]
    /\ UNCHANGED <<variant, NUM_THREADS, NUM_SCANS, done, lock, pool,
                   image_times, taken, current_bit_pattern, shared_bin_pixels,
                   event, terminated, stream, raised, self_bin_pixels,
                   bit_pattern, mpc, processor, closeCaller, cameraClosed,
                   handed, notFound>>
    /\ UNCHANGED layoutVars

\* mutant: a wait that timed out is taken for a signal
WWaitSpurious(w) ==
    /\ pc[w] = "wait"
    /\ pc' = [pc EXCEPT ![w] = "lock"]
    /\ UNCHANGED <<variant, NUM_THREADS, NUM_SCANS, done, lock, pool,
                   image_times, taken, current_bit_pattern, shared_bin_pixels,
                   event, terminated, stream, raised, self_bin_pixels,
                   bit_pattern, mpc, processor, closeCaller, cameraClosed,
                   handed, notFound>>
    /\ UNCHANGED layoutVars

\* mutant: the flag is read again when the wait returns
WWaitChecksFlag(w) ==
    /\ pc[w] = "wait"
    /\ pc' = [pc EXCEPT ![w] = IF terminated[w] THEN "exited"
                               ELSE IF event[w] THEN "lock" ELSE "loop"]
    /\ UNCHANGED <<variant, NUM_THREADS, NUM_SCANS, done, lock, pool,
                   image_times, taken, current_bit_pattern, shared_bin_pixels,
                   event, terminated, stream, raised, self_bin_pixels,
                   bit_pattern, mpc, processor, closeCaller, cameraClosed,
                   handed, notFound>>
    /\ UNCHANGED layoutVars

\* mutant: the wait has no timeout
WWaitNoTimeout(w) ==
    /\ pc[w] = "wait"
    /\ event[w]
    /\ pc' = [pc EXCEPT ![w] = "lock"]
    /\ UNCHANGED <<variant, NUM_THREADS, NUM_SCANS, done, lock, pool,
                   image_times, taken, current_bit_pattern, shared_bin_pixels,
                   event, terminated, stream, raised, self_bin_pixels,
                   bit_pattern, mpc, processor, closeCaller, cameraClosed,
                   handed, notFound>>
    /\ UNCHANGED layoutVars

\* if self.event.wait(1): true when the event is set, false after a second
WWait(w) ==
    /\ pc[w] = "wait"
    /\ pc' = [pc EXCEPT ![w] = IF event[w] THEN "lock" ELSE "loop"]
    /\ UNCHANGED <<variant, NUM_THREADS, NUM_SCANS, done, lock, pool,
                   image_times, taken, current_bit_pattern, shared_bin_pixels,
                   event, terminated, stream, raised, self_bin_pixels,
                   bit_pattern, mpc, processor, closeCaller, cameraClosed,
                   handed, notFound>>
    /\ UNCHANGED layoutVars

\* with lock:
WAcquire(w) ==
    /\ pc[w] = "lock"
    /\ lock = Free
    /\ lock' = w
    /\ pc' = [pc EXCEPT ![w] = "times"]
    /\ UNCHANGED <<variant, NUM_THREADS, NUM_SCANS, done, pool,
                   image_times, taken, current_bit_pattern, shared_bin_pixels,
                   event, terminated, stream, raised, self_bin_pixels,
                   bit_pattern, mpc, processor, closeCaller, cameraClosed,
                   handed, notFound>>
    /\ UNCHANGED layoutVars

\* mutant: no timestamp is logged once done is set
WTimesUnlessDone(w) ==
    /\ pc[w] = "times"
    /\ image_times' = IF done THEN image_times ELSE image_times + 1
    /\ pc' = [pc EXCEPT ![w] = "incr"]
    /\ UNCHANGED <<variant, NUM_THREADS, NUM_SCANS, done, lock, pool,
                   taken, current_bit_pattern, shared_bin_pixels,
                   event, terminated, stream, raised, self_bin_pixels,
                   bit_pattern, mpc, processor, closeCaller, cameraClosed,
                   handed, notFound>>
    /\ UNCHANGED layoutVars

\* image_times.append(systime())
WTimes(w) ==
    /\ pc[w] = "times"
    /\ image_times' = image_times + 1
    /\ pc' = [pc EXCEPT ![w] = "incr"]
    /\ UNCHANGED <<variant, NUM_THREADS, NUM_SCANS, done, lock, pool,
                   taken, current_bit_pattern, shared_bin_pixels,
                   event, terminated, stream, raised, self_bin_pixels,
                   bit_pattern, mpc, processor, closeCaller, cameraClosed,
                   handed, notFound>>
    /\ UNCHANGED layoutVars

\* taken += 1
WIncr(w) ==
    /\ pc[w] = "incr"
    /\ taken' = taken + 1
    /\ pc' = [pc EXCEPT ![w] = "test"]
    /\ UNCHANGED <<variant, NUM_THREADS, NUM_SCANS, done, lock, pool,
                   image_times, current_bit_pattern, shared_bin_pixels,
                   event, terminated, stream, raised, self_bin_pixels,
                   bit_pattern, mpc, processor, closeCaller, cameraClosed,
                   handed, notFound>>
    /\ UNCHANGED layoutVars

\* mutant: the threshold test is off by one
ReachedTargetLate(t, n) == t > n

\* if taken >= NUM_SCANS: done=True
ReachedTarget(t, n) == t >= n

\* mutant: the lock is not released before calibrate / decode
WTestKeepsLock(w) ==
    /\ pc[w] = "test"
    /\ done' = IF ReachedTarget(taken, NUM_SCANS) THEN TRUE ELSE done
    /\ pc' = [pc EXCEPT ![w] = IF variant = 1 THEN "decode" ELSE "calibrate"]
    /\ UNCHANGED <<variant, NUM_THREADS, NUM_SCANS, lock, pool,
                   image_times, taken, current_bit_pattern, shared_bin_pixels,
                   event, terminated, stream, raised, self_bin_pixels,
                   bit_pattern, mpc, processor, closeCaller, cameraClosed,
                   handed, notFound>>
    /\ UNCHANGED layoutVars

\* mutant: run() lacks "global done", the assignment makes a local
WTestLocalDone(w) ==
    /\ pc[w] = "test"
    /\ lock' = Free
    /\ pc' = [pc EXCEPT ![w] = IF variant = 1 THEN "decode" ELSE "calibrate"]
    /\ UNCHANGED <<variant, NUM_THREADS, NUM_SCANS, done, pool,
                   image_times, taken, current_bit_pattern, shared_bin_pixels,
                   event, terminated, stream, raised, self_bin_pixels,
                   bit_pattern, mpc, processor, closeCaller, cameraClosed,
                   handed, notFound>>
    /\ UNCHANGED layoutVars

\* the test, then the end of the with block releases the lock
WTest(w) ==
    /\ pc[w] = "test"
    /\ done' = IF ReachedTarget(taken, NUM_SCANS) THEN TRUE ELSE done
    /\ lock' = Free
    /\ pc' = [pc EXCEPT ![w] = IF variant = 1 THEN "decode" ELSE "calibrate"]
    /\ UNCHANGED <<variant, NUM_THREADS, NUM_SCANS, pool,
                   image_times, taken, current_bit_pattern, shared_bin_pixels,
                   event, terminated, stream, raised, self_bin_pixels,
                   bit_pattern, mpc, processor, closeCaller, cameraClosed,
                   handed, notFound>>
    /\ UNCHANGED layoutVars

\* v2: self._calibrate().  Without markers it closes the stream and calls
\* self.close(), which a Thread does not have: AttributeError.  A zero step
\* makes np.arange raise ZeroDivisionError.
WCalibrate(w) ==
    /\ pc[w] = "calibrate"
    /\ \E o \in Calibrated2[stream[w].data] :
         /\ self_bin_pixels' = [self_bin_pixels EXCEPT ![w] = o.bins]
         /\ stream' = [stream EXCEPT
                         ![w] = IF o.status = "notfound" THEN ClosedStream ELSE @]
         /\ raised' = [raised EXCEPT ![w] = (o.status # "ok")]
         /\ notFound' = IF o.status = "notfound" THEN notFound + 1 ELSE notFound
         /\ pc' = [pc EXCEPT ![w] = IF o.status = "ok" THEN "decode" ELSE "rewind"]
    /\ UNCHANGED <<variant, NUM_THREADS, NUM_SCANS, done, lock, pool,
                   image_times, taken, current_bit_pattern, shared_bin_pixels,
                   event, terminated, bit_pattern, mpc, processor, closeCaller,
                   cameraClosed, handed>>
    /\ UNCHANGED layoutVars

\* the loop over the bins; v1 reads the global bin_pixels
WDecode(w) ==
    /\ pc[w] = "decode"
    /\ LET d == Decoded[variant, stream[w].data,
                         IF variant = 1 THEN shared_bin_pixels
                                        ELSE self_bin_pixels[w]]
       IN  /\ bit_pattern' = [bit_pattern EXCEPT ![w] = d.bits]
           /\ raised' = [raised EXCEPT ![w] = d.error]
           /\ pc' = [pc EXCEPT ![w] = IF d.error THEN "rewind"
                                      ELSE IF variant = 1 THEN "publish"
                                      ELSE "rewind"]
    /\ UNCHANGED <<variant, NUM_THREADS, NUM_SCANS, done, lock, pool,
                   image_times, taken, current_bit_pattern, shared_bin_pixels,
                   event, terminated, stream, self_bin_pixels,
                   mpc, processor, closeCaller, cameraClosed,
                   handed, notFound>>
    /\ UNCHANGED layoutVars

\* mutant: the pattern is published one bit short
WPublishPartial(w) ==
    /\ pc[w] = "publish"
    /\ lock = Free
    /\ current_bit_pattern' = Front(bit_pattern[w])
    /\ pc' = [pc EXCEPT ![w] = "rewind"]
    /\ UNCHANGED <<variant, NUM_THREADS, NUM_SCANS, done, lock, pool,
                   image_times, taken, shared_bin_pixels,
                   event, terminated, stream, raised, self_bin_pixels,
                   bit_pattern, mpc, processor, closeCaller, cameraClosed,
                   handed, notFound>>
    /\ UNCHANGED layoutVars

\* v1: with lock: current_bit_pattern = brightness
WPublish(w) ==
    /\ pc[w] = "publish"
    /\ lock = Free
    /\ current_bit_pattern' = bit_pattern[w]
    /\ pc' = [pc EXCEPT ![w] = "rewind"]
    /\ UNCHANGED <<variant, NUM_THREADS, NUM_SCANS, done, lock, pool,
                   image_times, taken, shared_bin_pixels,
                   event, terminated, stream, raised, self_bin_pixels,
                   bit_pattern, mpc, processor, closeCaller, cameraClosed,
                   handed, notFound>>
    /\ UNCHANGED layoutVars

\* mutant: the cleanup forgets event.clear()
WRewindNoClear(w) ==
    /\ pc[w] = "rewind"
    /\ IF stream[w].st = "closed"
       THEN /\ pc' = [pc EXCEPT ![w] = "dead"]
            /\ raised' = [raised EXCEPT ![w] = TRUE]
            /\ UNCHANGED stream
       ELSE /\ stream' = [stream EXCEPT ![w] = EmptyStream]
            /\ pc' = [pc EXCEPT ![w] = "append"]
            /\ UNCHANGED raised
    /\ self_bin_pixels' = [self_bin_pixels EXCEPT ![w] = <<>>]
    /\ bit_pattern' = [bit_pattern EXCEPT ![w] = <<>>]
    /\ UNCHANGED <<variant, NUM_THREADS, NUM_SCANS, done, lock, pool,
                   image_times, taken, current_bit_pattern, shared_bin_pixels,
                   event, terminated, mpc, processor, closeCaller, cameraClosed,
                   handed, notFound>>
    /\ UNCHANGED layoutVars

\* finally: stream.seek(0); stream.truncate(); event.clear().  seek on a
\* closed stream raises ValueError, which ends the thread.  The pattern and
\* the boundary list of the cycle are dead from here on (the next cycle
\* resets them before it reads them): the model clears them.
WRewind(w) ==
    /\ pc[w] = "rewind"
    /\ IF stream[w].st = "closed"
       THEN /\ pc' = [pc EXCEPT ![w] = "dead"]
            /\ raised' = [raised EXCEPT ![w] = TRUE]
            /\ UNCHANGED <<stream, event>>
       ELSE /\ stream' = [stream EXCEPT ![w] = EmptyStream]
            /\ event' = [event EXCEPT ![w] = FALSE]
            /\ pc' = [pc EXCEPT ![w] = "append"]
            /\ UNCHANGED raised
    /\ self_bin_pixels' = [self_bin_pixels EXCEPT ![w] = <<>>]
    /\ bit_pattern' = [bit_pattern EXCEPT ![w] = <<>>]
    /\ UNCHANGED <<variant, NUM_THREADS, NUM_SCANS, done, lock, pool,
                   image_times, taken, current_bit_pattern, shared_bin_pixels,
                   terminated, mpc, processor, closeCaller, cameraClosed,
                   handed, notFound>>
    /\ UNCHANGED layoutVars

\* with lock: pool.append(self).  There is no except clause: an exception
\* raised in the try block propagates once the finally block is done and
\* ends the thread.
WAppend(w) ==
    /\ pc[w] = "append"
    /\ lock = Free
    /\ pool' = Append(pool, w)
    /\ pc' = [pc EXCEPT ![w] = IF raised[w] THEN "dead" ELSE "loop"]
    /\ UNCHANGED <<variant, NUM_THREADS, NUM_SCANS, done, lock,
                   image_times, taken, current_bit_pattern, shared_bin_pixels,
                   event, terminated, stream, raised, self_bin_pixels,
                   bit_pattern, mpc, processor, closeCaller, cameraClosed,
                   handed, notFound>>
    /\ UNCHANGED layoutVars

(***************************************************************************)
(* G2Scanner: scan(), streams() and close(), run by the main thread        *)
(***************************************************************************)
\* mutant: scan() starts the capture sequence without calibrating
MCalibrateSkipped ==
    /\ mpc = "calibrate"
    /\ mpc' = "streams"
    /\ UNCHANGED <<variant, NUM_THREADS, NUM_SCANS, done, lock, pool,
                   image_times, taken, current_bit_pattern, shared_bin_pixels,
                   pc, event, terminated, stream, raised, self_bin_pixels,
                   bit_pattern, processor, closeCaller, cameraClosed,
                   handed, notFound>>
    /\ UNCHANGED layoutVars

\* v1 scan(): self._calibrate() on a frame of its own, before the capture
\* sequence.  Without markers it calls self.close() and then exit(); a zero
\* step makes np.arange raise, which ends the main thread while the workers
\* keep running.
MCalibrate ==
    /\ mpc = "calibrate"
    /\ \E f \in CalibrationFrames :
         \E o \in CalibrateThreaded(shared_bin_pixels, f) :
           /\ shared_bin_pixels' = o.bins
           /\ notFound' = IF o.status = "notfound" THEN notFound + 1 ELSE notFound
           /\ closeCaller' = IF o.status = "notfound" THEN "calibrate" ELSE closeCaller
           /\ mpc' = CASE o.status = "ok" -> "streams"
                       [] o.status = "notfound" -> "close"
                       [] o.status = "zerodiv" -> "crashed"
    /\ UNCHANGED <<variant, NUM_THREADS, NUM_SCANS, done, lock, pool,
                   image_times, taken, current_bit_pattern,
                   pc, event, terminated, stream, raised, self_bin_pixels,
                   bit_pattern, processor, cameraClosed, handed>>
    /\ UNCHANGED layoutVars

\* streams(): while not done.  When the generator ends, capture_sequence
\* and scan() return and the script calls g2.close().
StreamsCheck ==
    /\ mpc = "streams"
    /\ mpc' = IF done THEN "close" ELSE "acquire"
    /\ closeCaller' = IF done THEN "main" ELSE closeCaller
    /\ UNCHANGED <<variant, NUM_THREADS, NUM_SCANS, done, lock, pool,
                   image_times, taken, current_bit_pattern, shared_bin_pixels,
                   pc, event, terminated, stream, raised, self_bin_pixels,
                   bit_pattern, processor, cameraClosed, handed, notFound>>
    /\ UNCHANGED layoutVars

\* with lock: processor = pool.pop() if pool else None; on None the
\* generator sleeps and tests done again
StreamsAcquire ==
    /\ mpc = "acquire"
    /\ lock = Free
    /\ IF pool # <<>>
       THEN /\ processor' = Last(pool)
            /\ pool' = Front(pool)
            /\ mpc' = "fill"
       ELSE /\ processor' = 0
            /\ pool' = pool
            /\ mpc' = "streams"
    /\ UNCHANGED <<variant, NUM_THREADS, NUM_SCANS, done, lock,
                   image_times, taken, current_bit_pattern, shared_bin_pixels,
                   pc, event, terminated, stream, raised, self_bin_pixels,
                   bit_pattern, closeCaller, cameraClosed, handed, notFound>>
    /\ UNCHANGED layoutVars

\* yield processor.stream: the camera writes one frame into the stream
StreamsFill ==
    /\ mpc = "fill"
    /\ \E f \in SampleFrames :
         stream' = [stream EXCEPT ![processor] = Filled(f)]
    /\ mpc' = "set"
    /\ UNCHANGED <<variant, NUM_THREADS, NUM_SCANS, done, lock, pool,
                   image_times, taken, current_bit_pattern, shared_bin_pixels,
                   pc, event, terminated, raised, self_bin_pixels,
                   bit_pattern, processor, closeCaller, cameraClosed,
                   handed, notFound>>
    /\ UNCHANGED layoutVars

\* The camera fails: camera.capture() in v1's _calibrate or the capture of
\* capture_sequence() raises.  Nothing catches the exception: it leaves
\* scan() and ends the script before g2.close(); the worker threads, which
\* are not daemon threads, keep running.
CaptureFails ==
    /\ mpc \in {"calibrate", "fill"}
    /\ mpc' = "capture_error"
    /\ UNCHANGED <<variant, NUM_THREADS, NUM_SCANS, done, lock, pool,
                   image_times, taken, current_bit_pattern, shared_bin_pixels,
                   pc, event, terminated, stream, raised, self_bin_pixels,
                   bit_pattern, processor, closeCaller, cameraClosed,
                   handed, notFound>>
    /\ UNCHANGED layoutVars

\* processor.event.set()
StreamsSet ==
    /\ mpc = "set"
    /\ event' = [event EXCEPT ![processor] = TRUE]
    /\ handed' = handed + 1
    /\ mpc' = "streams"
    /\ UNCHANGED <<variant, NUM_THREADS, NUM_SCANS, done, lock, pool,
                   image_times, taken, current_bit_pattern, shared_bin_pixels,
                   pc, terminated, stream, raised, self_bin_pixels,
                   bit_pattern, processor, closeCaller, cameraClosed, notFound>>
    /\ UNCHANGED layoutVars

\* mutant: close() forgets the camera
CloseCameraSkipped ==
    /\ mpc = "close"
    /\ mpc' = "wait_pool"
    /\ UNCHANGED <<variant, NUM_THREADS, NUM_SCANS, done, lock, pool,
                   image_times, taken, current_bit_pattern, shared_bin_pixels,
                   pc, event, terminated, stream, raised, self_bin_pixels,
                   bit_pattern, processor, closeCaller, cameraClosed,
                   handed, notFound>>
    /\ UNCHANGED layoutVars

\* close(): self.camera.close() is its first statement
CloseCamera ==
    /\ mpc = "close"
    /\ cameraClosed' = cameraClosed + 1
    /\ mpc' = "wait_pool"
    /\ UNCHANGED <<variant, NUM_THREADS, NUM_SCANS, done, lock, pool,
                   image_times, taken, current_bit_pattern, shared_bin_pixels,
                   pc, event, terminated, stream, raised, self_bin_pixels,
                   bit_pattern, processor, closeCaller, handed, notFound>>
    /\ UNCHANGED layoutVars

\* mutant: the wait only asks for a pool that is not empty
PoolNotEmpty(p, n) == Len(p) > 0

\* while len(pool) != NUM_THREADS: time.sleep(0.1)
PoolIsFull(p, n) == Len(p) = n

CloseWait ==
    /\ mpc = "wait_pool"
    /\ PoolIsFull(pool, NUM_THREADS)
    /\ mpc' = "drain"
    /\ UNCHANGED <<variant, NUM_THREADS, NUM_SCANS, done, lock, pool,
                   image_times, taken, current_bit_pattern, shared_bin_pixels,
                   pc, event, terminated, stream, raised, self_bin_pixels,
                   bit_pattern, processor, closeCaller, cameraClosed,
                   handed, notFound>>
    /\ UNCHANGED layoutVars

\* while pool: with lock: processor = pool.pop()
CloseDrain ==
    /\ mpc = "drain"
    /\ IF pool = <<>>
       THEN /\ mpc' = "stats"
            /\ UNCHANGED <<pool, processor>>
       ELSE /\ lock = Free
            /\ processor' = Last(pool)
            /\ pool' = Front(pool)
            /\ mpc' = "terminate"
    /\ UNCHANGED <<variant, NUM_THREADS, NUM_SCANS, done, lock,
                   image_times, taken, current_bit_pattern, shared_bin_pixels,
                   pc, event, terminated, stream, raised, self_bin_pixels,
                   bit_pattern, closeCaller, cameraClosed, handed, notFound>>
    /\ UNCHANGED layoutVars

\* processor.stream.close(); processor.terminated = True
CloseTerminate ==
    /\ mpc = "terminate"
    /\ stream' = [stream EXCEPT ![processor] = ClosedStream]
    /\ terminated' = [terminated EXCEPT ![processor] = TRUE]
    /\ mpc' = "join"
    /\ UNCHANGED <<variant, NUM_THREADS, NUM_SCANS, done, lock, pool,
                   image_times, taken, current_bit_pattern, shared_bin_pixels,
                   pc, event, raised, self_bin_pixels,
                   bit_pattern, processor, closeCaller, cameraClosed,
                   handed, notFound>>
    /\ UNCHANGED layoutVars

\* a thread has ended when run() returned or an exception left it
ThreadEnded(p) == p \in {"exited", "dead"}

\* processor.join()
CloseJoin ==
    /\ mpc = "join"
    /\ ThreadEnded(pc[processor])
    /\ mpc' = "drain"
    /\ UNCHANGED <<variant, NUM_THREADS, NUM_SCANS, done, lock, pool,
                   image_times, taken, current_bit_pattern, shared_bin_pixels,
                   pc, event, terminated, stream, raised, self_bin_pixels,
                   bit_pattern, processor, closeCaller, cameraClosed,
                   handed, notFound>>
    /\ UNCHANGED layoutVars

\* if DEBUG_LEVEL >= .. and NUM_SCANS > 1: t0 = image_times[0] ...: an
\* IndexError when image_times is empty.  close() then returns: to the
\* script, which ends, or to _calibrate, which calls exit().
CloseStats ==
    /\ mpc = "stats"
    /\ mpc' = IF NUM_SCANS > 1 /\ image_times = 0 THEN "stats_error"
              ELSE IF closeCaller = "calibrate" THEN "exit"
              ELSE "finished"
    /\ UNCHANGED <<variant, NUM_THREADS, NUM_SCANS, done, lock, pool,
                   image_times, taken, current_bit_pattern, shared_bin_pixels,
                   pc, event, terminated, stream, raised, self_bin_pixels,
                   bit_pattern, processor, closeCaller, cameraClosed,
                   handed, notFound>>
    /\ UNCHANGED layoutVars

Next ==
    \/ MCalibrate
    \/ StreamsCheck
    \/ StreamsAcquire
    \/ StreamsFill
    \/ CaptureFails
    \/ StreamsSet
    \/ CloseCamera
    \/ CloseWait
    \/ CloseDrain
    \/ CloseTerminate
    \/ CloseJoin
    \/ CloseStats
    \/ \E w \in Workers : WLoop(w)
    \/ \E w \in Workers : WWait(w)
    \/ \E w \in Workers : WAcquire(w)
    \/ \E w \in Workers : WTimes(w)
    \/ \E w \in Workers : WIncr(w)
    \/ \E w \in Workers : WTest(w)
    \/ \E w \in Workers : WCalibrate(w)
    \/ \E w \in Workers : WDecode(w)
    \/ \E w \in Workers : WPublish(w)
    \/ \E w \in Workers : WRewind(w)
    \/ \E w \in Workers : WAppend(w)

Spec == Init /\ [][Next]_vars

(***************************************************************************)
(* SpecFair: the same program under a fair scheduler.  Every thread is an  *)
(* operating-system thread that keeps running: a step it can take it       *)
(* eventually takes (the sleeps of streams() and close() and the timeout   *)
(* of event.wait(1) all end).                                              *)
(***************************************************************************)
MainStep ==
    \/ MCalibrate
    \/ StreamsCheck
    \/ StreamsAcquire
    \/ StreamsFill
    \/ CaptureFails
    \/ StreamsSet
    \/ CloseCamera
    \/ CloseWait
    \/ CloseDrain
    \/ CloseTerminate
    \/ CloseJoin
    \/ CloseStats

WorkerStep(w) ==
    \/ WLoop(w)
    \/ WWait(w)
    \/ WAcquire(w)
    \/ WTimes(w)
    \/ WIncr(w)
    \/ WTest(w)
    \/ WCalibrate(w)
    \/ WDecode(w)
    \/ WPublish(w)
    \/ WRewind(w)
    \/ WAppend(w)

Fairness ==
    /\ WF_vars(MainStep)
    /\ \A w \in 1 .. MaxThreads : WF_vars(w \in Workers /\ WorkerStep(w))

SpecFair == Init /\ [][Next]_vars /\ Fairness

(***************************************************************************)
(* SpecLayout: calibration, then decode, of one program on one frame.      *)
(***************************************************************************)
Impls == {"analyse", "threaded", "threaded2"}

\* frames whose only dark rows are the two marker rows (one row when they
\* coincide), and the frame without any dark row
MarkerFrames ==
    {{}} \cup {{t, b} : t \in 0 .. MaxTop, b \in Rows}

\* the frame whose 20 bins of h rows below row top alternate dark and light,
\* starting with dark, closed by a dark bottom marker row
StripedFrame(top, h) ==
    {r \in Rows : r >= top /\ r < top + BINS * h /\ ((r - top) \div h) % 2 = 0}
        \cup {top + BINS * h}

\* frames with a content between the markers: the striped frame with bins of
\* 14 rows, and a light frame with markers 280 rows apart and one dark row,
\* the ninth of the second bin
PatternFrames == {StripedFrame(10, 14), {10, 32, 290}}

LayoutFrames == MarkerFrames \cup PatternFrames

InitSchedOff ==
    /\ variant = 0 /\ NUM_THREADS = 0 /\ NUM_SCANS = 0
    /\ done = FALSE /\ lock = Free /\ pool = <<>>
    /\ image_times = 0 /\ taken = 0
    /\ current_bit_pattern = <<>> /\ shared_bin_pixels = <<>>
    /\ pc = <<>> /\ event = <<>> /\ terminated = <<>> /\ stream = <<>>
    /\ raised = <<>> /\ self_bin_pixels = <<>> /\ bit_pattern = <<>>
    /\ mpc = "off" /\ processor = 0 /\ closeCaller = "none"
    /\ cameraClosed = 0 /\ handed = 0 /\ notFound = 0

\* np.argmax(np.sum(edges, axis=0)) is a column of the frame: the edge map
\* is computed by cv2.Canny over all columns of the picture
Columns == 0 .. (COLS - 1)

InitLayout ==
    /\ InitSchedOff
    /\ impl \in Impls
    /\ arr \in LayoutFrames
    /\ lpc = "start"
    /\ bin_pixels = <<>>
    /\ bin_bits = <<>>
    /\ zeroDiv = FALSE
    /\ first_bin_pixels = <<>>
    /\ max_edge \in IF impl = "analyse" THEN Columns ELSE {-1}
    /\ scan_column = -1

\* the calibration section of analyse() / _calibrate()
LCalibrate ==
    /\ lpc = "start"
    /\ \E o \in Calibrate(impl, bin_pixels, arr) :
         /\ bin_pixels' = o.bins
         /\ lpc' = CASE o.status = "ok" -> "calibrated"
                     [] o.status = "notfound" -> "notfound"
                     [] o.status = "zerodiv" -> "raised"
    /\ UNCHANGED <<impl, arr, bin_bits, zeroDiv, first_bin_pixels,
                   max_edge, scan_column>>
    /\ UNCHANGED schedVars

\* the same floating-point computation on the same numbers gives the same
\* numbers: the entries a second calibration computes are the entries the
\* first one computed
SameRounding(new, first) ==
    /\ Len(new) >= Len(first)
    /\ SubSeq(new, Len(new) - Len(first) + 1, Len(new)) = first

\* the calibration section run a second time on the same frame.  threaded.py
\* appends to the global bin_pixels, which nothing resets; the other two
\* programs assign a fresh list.
LRecalibrate ==
    /\ lpc = "calibrated"
    /\ \E o \in Calibrate(impl, bin_pixels, arr) :
         /\ SameRounding(o.bins, bin_pixels)
         /\ bin_pixels' = o.bins
    /\ first_bin_pixels' = bin_pixels
    /\ lpc' = "recalibrated"
    /\ UNCHANGED <<impl, arr, bin_bits, zeroDiv, max_edge, scan_column>>
    /\ UNCHANGED schedVars

\* mutant: the switch from + 4 to - 4 comes three columns late
ScanColumnLateSwitch(p) == IF p > 12 THEN p - 4 ELSE p + 4

\* g2scanner.py: if max_edge > 9: scan_column = max_edge - 4, else + 4
ScanColumn(p) == IF p > 9 THEN p - 4 ELSE p + 4

\* the choice of the scan column (analyse only; the threaded programs use
\* column 8), then the decode loop over the bins
LDecode ==
    /\ lpc = "calibrated"
    /\ scan_column' = IF impl = "analyse" THEN ScanColumn(max_edge)
                                           ELSE SCAN_COLUMN
    /\ LET d == Decode(impl, arr, bin_pixels)
       IN  /\ bin_bits' = d.bits
           /\ zeroDiv' = d.zero
           /\ lpc' = IF d.error THEN "raised" ELSE "decoded"
    /\ UNCHANGED <<impl, arr, bin_pixels, first_bin_pixels, max_edge>>
    /\ UNCHANGED schedVars

NextLayout ==
    \/ LCalibrate
    \/ LRecalibrate
    \/ LDecode

SpecLayout == InitLayout /\ [][NextLayout]_vars

(***************************************************************************)
(* Vocabulary of the properties                                            *)
(***************************************************************************)
\* positions of run() inside one processing cycle (event seen .. appended)
CyclePcs == {"lock", "times", "incr", "test", "calibrate", "decode",
             "publish", "rewind", "append"}
\* positions at which the worker reads or resets its stream
TouchPcs == {"calibrate", "decode", "rewind"}
\* positions of the main thread inside the drain of close() and after it
DrainPcs == {"drain", "terminate", "join", "stats", "finished", "exit",
             "stats_error"}
\* the script is over
EndPcs == {"finished", "exit", "stats_error"}

InPool(w) == \E i \in 1 .. Len(pool) : pool[i] = w
TimesInPool(w) == Cardinality({i \in 1 .. Len(pool) : pool[i] = w})
ProducerHolds(w) == mpc \in {"fill", "set"} /\ processor = w
ProducerWrites(w) == mpc = "fill" /\ processor = w
ThreadAlive(w) == ~ThreadEnded(pc[w])
WorkerHolds(w) == ThreadAlive(w) /\ (event[w] \/ pc[w] \in CyclePcs)
WorkerTouches(w) == pc[w] \in TouchPcs
Bool2Nat(b) == IF b THEN 1 ELSE 0

C2_PoolConservation ==
    mpc \notin DrainPcs =>
        \A w \in Workers :
            TimesInPool(w) + Bool2Nat(ProducerHolds(w)) + Bool2Nat(WorkerHolds(w)) = 1

(***************************************************************************)
(* C3.  Guaranteed cleanup, as claimed: a worker whose cycle raised is     *)
(* still running its cleanup; once the cleanup is over the exception is    *)
(* gone and the worker is a live thread again.  No worker thread is ever   *)
(* ended by an exception.                                                  *)
(***************************************************************************)
C3_GuaranteedCleanup ==
    \A w \in Workers :
        /\ raised[w] => pc[w] \in {"rewind", "append"}
        /\ pc[w] # "dead"

(***************************************************************************)
(* C4.  Shutdown ordering: whenever some worker is marked terminated, the  *)
(* main thread is past the wait of close(), no buffer is with the producer *)
(* or signalled, no worker is inside its cycle, and every worker is in the *)
(* pool, or was popped from it by the drain.                               *)
(***************************************************************************)
C4_ShutdownOrdering ==
    \A w \in Workers :
        terminated[w] =>
            /\ mpc \in DrainPcs
            /\ \A v \in Workers :
                 /\ ~ProducerHolds(v)
                 /\ ~event[v]
                 /\ pc[v] \notin CyclePcs
                 /\ \/ InPool(v)
                    \/ terminated[v]
                    \/ (mpc = "terminate" /\ processor = v)

\* the drain has terminated one worker and another still waits in the pool
C4_Witness ==
    \E w, v \in Workers :
        /\ terminated[w]
        /\ ~terminated[v]
        /\ InPool(v)
        /\ taken >= NUM_SCANS

(***************************************************************************)
(* C5.  Exclusive buffer access: the producer writes a worker's stream     *)
(* only while that worker is out of the pool, not signalled and not        *)
(* touching the stream; a worker touches its stream only while its event   *)
(* is set and it is out of the pool.                                       *)
(***************************************************************************)
C5_ExclusiveAccess ==
    \A w \in Workers :
        /\ ProducerWrites(w) => ~InPool(w) /\ ~event[w] /\ ~WorkerTouches(w)
        /\ WorkerTouches(w) => event[w] /\ ~InPool(w) /\ ~ProducerHolds(w)

\* the producer fills one stream while another worker decodes its own
C5_Witness ==
    \E w, v \in Workers :
        /\ w # v
        /\ ProducerWrites(w)
        /\ pc[v] = "decode"

(***************************************************************************)
(* C9.  Markers-not-found policy, as claimed: once a frame without a dark  *)
(* row was calibrated, either the session is being aborted, or the frame   *)
(* was skipped: the scan counter did not count it, so it counts at most    *)
(* the frames handed out minus the frames without markers.                 *)
(***************************************************************************)
C9_MarkersNotFoundPolicy ==
    notFound > 0 =>
        \/ closeCaller = "calibrate"
        \/ taken + notFound <= handed

(***************************************************************************)
(* C10.  As claimed: the camera is closed only once every worker has been  *)
(* marked terminated and its thread has ended, and exactly once.           *)
(***************************************************************************)
C10_CloseAfterJoin ==
    /\ cameraClosed <= 1
    /\ cameraClosed > 0 =>
         \A w \in Workers : terminated[w] /\ ThreadEnded(pc[w])

\* C10 as amended: the camera is closed at most once, by the first
\* statement of close(): it is closed before any worker is marked
\* terminated, and in every session whose shutdown has begun.
C10_CloseFirst ==
    /\ cameraClosed <= 1
    /\ (\E w \in Workers : terminated[w]) => cameraClosed = 1
    /\ mpc \in ({"wait_pool"} \cup DrainPcs) => cameraClosed = 1
    /\ mpc \in {"calibrate", "streams", "acquire", "fill", "set", "close"}
         => cameraClosed = 0

\* the camera is closed while a worker is still decoding
C10_Witness ==
    /\ cameraClosed = 1
    /\ \E w \in Workers : pc[w] = "decode" /\ ~terminated[w]

(***************************************************************************)
(* C6.  As claimed: whenever calibration succeeded the boundary list has   *)
(* 21 entries, and the decoded pattern has 20 bits.                        *)
(***************************************************************************)
C6_TwentyBits ==
    /\ lpc \in {"calibrated", "decoded"} => Len(bin_pixels) = BOUNDARIES
    /\ lpc = "decoded" => Len(bin_bits) = BINS

(***************************************************************************)
(* C7.  As claimed: the first boundary is the top marker row, the 21st     *)
(* and last is the bottom marker row, and every boundary is a row of the   *)
(* frame.                                                                  *)
(***************************************************************************)
C7_MarkersAreEnds ==
    lpc \in {"calibrated", "decoded"} =>
        /\ Len(bin_pixels) = BOUNDARIES
        /\ bin_pixels[1] = top_bar_pixel(impl, arr)
        /\ bin_pixels[BOUNDARIES] = bottom_bar_pixel(impl, arr)
        /\ \A i \in 1 .. Len(bin_pixels) : bin_pixels[i] \in Rows

(***************************************************************************)
(* C8.  As claimed: the boundaries calibration produces are strictly       *)
(* increasing, so no bin has zero height, and decode never divides by a    *)
(* zero row count nor averages an empty range of rows.                     *)
(***************************************************************************)
C8_NoZeroHeightBin ==
    /\ lpc \in {"calibrated", "decoded"} =>
         \A i \in 1 .. (Len(bin_pixels) - 1) : bin_pixels[i] < bin_pixels[i + 1]
    /\ lpc = "decoded" => ~zeroDiv

(***************************************************************************)
(* The decode rule as the specification states it: the luminance of the    *)
(* scan column summed over the rows of the bin, divided by the number of   *)
(* rows, compared with the program's bit threshold.                        *)
(***************************************************************************)
StrictlyIncreasing(s) == \A i \in 1 .. (Len(s) - 1) : s[i] < s[i + 1]

\* the sum of the three channels averages below 200 (analyse) or below 175
\* (threaded); the weighted luminance averages below 95 (threaded2)
ClaimedBit(im, frame, a, b) ==
    LET total == SumRows(frame, a, b, 1)
        below ==
            CASE im = "analyse"   -> total < 2 * 100 * (b - a)
              [] im = "threaded"  -> total < 175 * (b - a)
              [] im = "threaded2" ->
                     (299 + 587 + 114) * total < 95 * 1000 * 3 * (b - a)
    IN  IF below THEN 1 ELSE 0

ClaimedPattern(im, frame, bins) ==
    [i \in 1 .. (Len(bins) - 1) |-> ClaimedBit(im, frame, bins[i], bins[i + 1])]

(***************************************************************************)
(* C11.  Decode rule, as claimed: whenever the decode loop ran over a      *)
(* layout of 21 strictly increasing boundaries, it ended with a pattern,   *)
(* and bit i of the pattern is 1 exactly when the luminance averaged over  *)
(* the rows of bin i is below the bit threshold, in boundary order.        *)
(***************************************************************************)
C11_DecodeRule ==
    (/\ lpc \in {"decoded", "raised"}
     /\ Len(bin_pixels) = BOUNDARIES
     /\ StrictlyIncreasing(bin_pixels))
        => /\ lpc = "decoded"
           /\ bin_bits = ClaimedPattern(impl, arr, bin_pixels)

(***************************************************************************)
(* C12.  Idempotence, as claimed: a second calibration of the same frame   *)
(* leaves the same boundary list as the first.                             *)
(***************************************************************************)
C12_CalibrateIdempotent ==
    lpc = "recalibrated" => bin_pixels = first_bin_pixels

(***************************************************************************)
(* Vocabulary of the session's progress                                    *)
(***************************************************************************)
\* the capture or a calibration failed
CaptureOrCalibrationFailed ==
    \/ mpc \in {"capture_error", "crashed"}
    \/ notFound > 0

\* close() has drained the pool: every worker was marked and joined
SessionComplete ==
    /\ done
    /\ mpc \in {"stats", "finished", "stats_error"}
    /\ pool = <<>>
    /\ \A w \in Workers : terminated[w] /\ ThreadEnded(pc[w])

(***************************************************************************)
(* C13.  Session termination, as claimed: under a fair scheduler a session *)
(* without capture or calibration failure eventually completes: done is    *)
(* true, the producer loop is over, and every worker is marked terminated  *)
(* and joined.                                                             *)
(***************************************************************************)
C13_SessionTerminates == <>(CaptureOrCalibrationFailed \/ SessionComplete)

(***************************************************************************)
(* C15.  Capture failure, as claimed: the main thread is never ended by a  *)
(* failure of the camera while a worker is unterminated or its thread      *)
(* still runs; the failure leads into the shutdown sequence.               *)
(***************************************************************************)
C15_CaptureFailureShutdown ==
    mpc = "capture_error" =>
        \A w \in Workers : terminated[w] /\ ThreadEnded(pc[w])

(***************************************************************************)
(* C14.  Lock discipline: a worker that holds the lock is in the           *)
(* bookkeeping step (timestamp, counter, threshold test); a worker inside  *)
(* calibrate or decode does not hold it.  Publishing and re-inserting take *)
(* and release the lock within one step.                                   *)
(***************************************************************************)
BookkeepingPcs == {"times", "incr", "test"}

C16_CooperativeCancellation ==
    [][\A w \in Workers :
          (pc[w] # "exited" /\ pc'[w] = "exited")
              => (pc[w] = "loop" /\ terminated[w])]_vars

\* the only worker has counted a frame, finished the cycle and returned
C16_Witness ==
    /\ NUM_THREADS = 1
    /\ taken > 0
    /\ pc[1] = "exited"

(***************************************************************************)
(* C17.  Worker exit liveness: under a fair scheduler, a worker whose      *)
(* terminated flag is set eventually ends its thread, although its event   *)
(* is never set again.                                                     *)
(***************************************************************************)
C17_WorkerExitLiveness ==
    \A w \in 1 .. MaxThreads :
        (w \in Workers /\ terminated[w])
            ~> (w \in Workers /\ ThreadEnded(pc[w]))

\* a worker marked terminated sits in the wait on an event nobody will set
C17_Witness ==
    \E w \in Workers :
        /\ terminated[w]
        /\ pc[w] = "wait"
        /\ ~event[w]

(***************************************************************************)
(* C18.  Termination flag: whenever no worker is in the bookkeeping        *)
(* critical section, done is true exactly when the scan counter has        *)
(* reached the target; no step sets done back to false.                    *)
(***************************************************************************)
C18_TerminationFlag ==
    /\ [](lock = Free => (done <=> taken >= NUM_SCANS))
    /\ [][done => done']_vars

\* done stays true while the counter passes the target
C18_Witness ==
    /\ done
    /\ lock = Free
    /\ taken > NUM_SCANS

(***************************************************************************)
(* C19.  Latest pattern: current_bit_pattern is its initial empty list or  *)
(* the whole pattern one decode loop built from one frame and the layout:  *)
(* one bit per bin of the layout.                                          *)
(***************************************************************************)
C19_LatestPattern ==
    \/ current_bit_pattern = <<>>
    \/ /\ Len(current_bit_pattern) = Len(shared_bin_pixels) - 1
       /\ \E f \in SampleFrames :
            current_bit_pattern = Decoded[variant, f, shared_bin_pixels].bits

\* a pattern is published while another worker is decoding
C19_Witness ==
    /\ current_bit_pattern # <<>>
    /\ \E w \in Workers : pc[w] = "decode"

(***************************************************************************)
(* C20.  Calibrate once: in v1, once a buffer is being handed out, was     *)
(* handed out or is being processed, the shared layout is a layout a       *)
(* successful calibration produced; and no step other than scan()'s        *)
(* calibration changes the shared layout.                                  *)
(***************************************************************************)
CompleteLayouts ==
    {o.bins : o \in {x \in UNION {CalibrateThreaded(<<>>, f) : f \in CalibrationFrames} :
                        x.status = "ok"}}

C20_CalibrateOnce ==
    /\ [](variant = 1 =>
            ((\/ handed > 0
              \/ mpc \in {"acquire", "fill", "set"}
              \/ \E w \in Workers : event[w] \/ pc[w] \in CyclePcs)
                => shared_bin_pixels \in CompleteLayouts))
    /\ [][mpc # "calibrate" => shared_bin_pixels' = shared_bin_pixels]_vars

\* a worker of v1 decodes with the layout scan() computed
C20_Witness ==
    /\ variant = 1
    /\ shared_bin_pixels # <<>>
    /\ \E w \in Workers : pc[w] = "decode"

(***************************************************************************)
(* C21.  Edge-selected scan column: whenever analyse has chosen its scan   *)
(* column from a peak column p of the 16 columns, the column is p + 4 for  *)
(* p <= 9 and p - 4 for p > 9: four columns from the peak and a column of  *)
(* the frame.                                                              *)
(***************************************************************************)
C21_EdgeScanColumn ==
    (impl = "analyse" /\ lpc = "decoded") =>
        /\ max_edge <= 9 => scan_column = max_edge + 4
        /\ max_edge > 9 => scan_column = max_edge - 4
        /\ scan_column - max_edge \in {4, -4}
        /\ scan_column \in Columns

\* the peak is the last column: the scan column lies to its left
C21_Witness ==
    /\ impl = "analyse"
    /\ lpc = "decoded"
    /\ max_edge = COLS - 1
    /\ scan_column = COLS - 5

(***************************************************************************)
(* C22.  No lost or duplicated wake-up: a worker none of whose cycles has  *)
(* raised has its event clear while it is in the pool or in the producer's *)
(* hands, and has it set inside its cycle until the cleanup clears it      *)
(* before the re-insertion; and as long as no cycle has raised, every      *)
(* event the producer set was counted exactly once by its worker's cycle   *)
(* or is still set and waiting to be counted.                              *)
(***************************************************************************)
\* positions of run() before the increment of taken
PreCountPcs == {"loop", "wait", "lock", "times", "incr"}

\* the event of w is set and its cycle has not counted it yet
Uncounted(w) == event[w] /\ pc[w] \in PreCountPcs

C23_TimesMatchTaken ==
    (\A w \in Workers : pc[w] \notin BookkeepingPcs /\ lock # w) =>
        image_times = taken

\* two workers have both counted a frame and process them side by side
C23_Witness ==
    /\ lock = Free
    /\ image_times = taken
    /\ taken >= 2
    /\ \E w, v \in Workers :
         /\ w # v
         /\ pc[w] \in {"calibrate", "decode"}
         /\ pc[v] \in {"calibrate", "decode"}

====
